---- MODULE Spec2Model ----
(***************************************************************************)
(* Model of scripts/openpayments_general_payments_download_2023.py: the    *)
(* retry loop, the page fetcher, the sequential and the page-parallel      *)
(* downloader, merge_parts and the orchestrator loop of main().            *)
(*                                                                         *)
(* A file is a sequence of tokens: one token per text line written, and    *)
(* the token NL for the newline byte that ends it.  A path that holds no   *)
(* file maps to NoFile.                                                    *)
(*                                                                         *)
(* Specifications: Spec (one entity, any leftover storage), OrchSpec and   *)
(* LiveSpec (two entities), PoolSpec (three entities on a server that      *)
(* never fails), RetrySpec and RetryLiveSpec (the retry loop), PlanSpec    *)
(* (the parallel downloader called with any expected_total), MergeSpec     *)
(* (merge_parts called on any fragments), RepairSpec and ValidateSpec      *)
(* (the repair and the validator on any small file), ConfigSpec (the       *)
(* worker counts and the connection pool of main()), CatalogSpec (main()   *)
(* from the rows of the totals file on).                                   *)
(***************************************************************************)
EXTENDS Integers, Sequences, FiniteSets, TLC

\* ---------------------------------------------------------------- constants
PAGE_LIMIT == 5000
MANUAL_ATTEMPTS == 5
EXPECTED_MIN_COLS == 80
BLOCK == 131072

\* ------------------------------------------------------------------- bounds
\* most data rows one response body carries
MaxRows == 1
\* the server holds rows on sequential pages 0 .. MaxDataPages-1 only
MaxDataPages == 1

\* ------------------------------------------------------------------- tokens
Tok(t, p, i, c) == [t |-> t, p |-> p, i |-> i, c |-> c]
NL == Tok("NL", 0, 0, 0)
Blank == Tok("B", 0, 0, 0)
Missing == Tok("ENOENT", 0, 0, 0)
NoFile == <<Missing>>
\* the header line and the i-th data line of the response for page p, c columns
Hdr(p, c) == Tok("H", p, 0, c)
Row(p, i, c) == Tok("D", p, i, c)
\* the i-th data line of page p cut after its first column: the body ended there
Partial(p, i) == Tok("P", p, i, 1)
\* lines of an earlier run (page tag -1)
StaleHdr == Tok("H", -1, 0, EXPECTED_MIN_COLS)
StaleRow(i) == Tok("D", -1, i, EXPECTED_MIN_COLS)
StaleFinal == <<StaleHdr, NL, StaleRow(1), NL>>
StalePartial == <<StaleRow(1), NL, StaleRow(2)>>

Exists(f) == f # NoFile
Max(a, b) == IF a > b THEN a ELSE b
Min(a, b) == IF a < b THEN a ELSE b

\* ------------------------------------------------- truncate_trailing_partial_row
\* index (0-based) of the last NL of buf, -1 if none: bytes.rfind(b"\n")
RECURSIVE RFindFrom(_, _)
RFindFrom(buf, k) ==
    IF k = 0 THEN -1
    ELSE IF buf[k] = NL THEN k - 1
    ELSE RFindFrom(buf, k - 1)
rfind(buf) == RFindFrom(buf, Len(buf))

\* the backward scan: returns last_nl
RECURSIVE ScanBack(_, _, _, _)
ScanBack(f, pos, buffer, block) ==
    IF pos <= 0 THEN -1
    ELSE LET readpos == Max(0, pos - block)
             chunk == SubSeq(f, readpos + 1, pos)
             buf2 == chunk \o buffer
             idx == rfind(buf2)
         IN IF idx # -1 THEN readpos + idx
            ELSE ScanBack(f, readpos, buf2, block)

\* (a repair that cuts the file at the last newline instead of after it)
TruncateWithBlock_before(f, block) ==
    IF ~Exists(f) \/ Len(f) = 0 THEN f
    ELSE IF f[Len(f)] = NL THEN f
    ELSE LET last_nl == ScanBack(f, Len(f), <<>>, block)
         IN IF last_nl = -1 THEN <<>>
            ELSE SubSeq(f, 1, last_nl)

TruncateWithBlock(f, block) ==
    IF ~Exists(f) \/ Len(f) = 0 THEN f
    ELSE IF f[Len(f)] = NL THEN f
    ELSE LET last_nl == ScanBack(f, Len(f), <<>>, block)
         IN IF last_nl = -1 THEN <<>>
            ELSE SubSeq(f, 1, last_nl + 1)

truncate_trailing_partial_row(f) == TruncateWithBlock(f, BLOCK)

\* ------------------------------------------------------ validate_header_min_cols
\* the text lines of a file: str.splitlines()
RECURSIVE SplitFrom(_, _, _)
SplitFrom(f, k, cur) ==
    IF k > Len(f) THEN (IF cur = <<>> THEN <<>> ELSE <<cur>>)
    ELSE IF f[k] = NL THEN <<cur>> \o SplitFrom(f, k + 1, <<>>)
    ELSE SplitFrom(f, k + 1, cur \o <<f[k]>>)
splitlines(f) == SplitFrom(f, 1, <<>>)

\* line.strip() is non-empty
NonBlankLine(l) == \E k \in 1..Len(l) : l[k].t # "B"

RECURSIVE FirstNonBlank(_, _)
FirstNonBlank(ls, k) ==
    IF k > Len(ls) THEN <<>>
    ELSE IF NonBlankLine(ls[k]) THEN ls[k]
    ELSE FirstNonBlank(ls, k + 1)

\* len(next(csv.reader([header_line]))): the columns of the line's tokens
RECURSIVE ColsFrom(_, _)
ColsFrom(l, k) == IF k > Len(l) THEN 0 ELSE l[k].c + ColsFrom(l, k + 1)
Cols(l) == ColsFrom(l, 1)

\* (a validator that also rejects a header of exactly the expected columns)
validate_header_min_cols_strict(f, expected_min_cols) ==
    IF ~Exists(f) THEN [ok |-> FALSE, reason |-> "validation_error"]
    ELSE LET header_line == FirstNonBlank(splitlines(f), 1)
         IN IF header_line = <<>>
            THEN [ok |-> FALSE, reason |-> "empty_or_binary_file"]
            ELSE IF Cols(header_line) <= expected_min_cols
            THEN [ok |-> FALSE, reason |-> "too_few_columns"]
            ELSE [ok |-> TRUE, reason |-> ""]

validate_header_min_cols(f, expected_min_cols) ==
    IF ~Exists(f) THEN [ok |-> FALSE, reason |-> "validation_error"]
    ELSE LET header_line == FirstNonBlank(splitlines(f), 1)
         IN IF header_line = <<>>
            THEN [ok |-> FALSE, reason |-> "empty_or_binary_file"]
            ELSE IF Cols(header_line) < expected_min_cols
            THEN [ok |-> FALSE, reason |-> "too_few_columns"]
            ELSE [ok |-> TRUE, reason |-> ""]

\* ------------------------------------------------------------- count_lines_quick
count_lines_quick(f, max_lines) ==
    IF ~Exists(f) THEN 0
    ELSE Min(Len(splitlines(f)), max_lines)

\* ---------------------------------------------------- request_with_manual_backoff
\* what one session.get attempt ends in: a RequestException or a response
Exc == [k |-> "exc", status |-> 0]
Resp(st) == [k |-> "resp", status |-> st]
AttemptResults == {Exc, Resp(403), Resp(429), Resp(200), Resp(404)}
\* a script gives the result of each attempt the loop could make
Scripts == [1..MANUAL_ATTEMPTS -> AttemptResults]

NoErr == [type |-> "none", at |-> 0]
\* the exception object raised by attempt a
RequestException(a) == [type |-> "RequestException", at |-> a]
RuntimeError == [type |-> "RuntimeError", at |-> 0]
Returned(st) == [k |-> "return", status |-> st, err |-> NoErr]
Raised(e) == [k |-> "raise", status |-> 0, err |-> e]
\* a loop that takes every 4xx for throttling
Throttle_any4xx(r) == r.k = "resp" /\ r.status \in 400..499
Throttle(r) == r.k = "resp" /\ r.status \in {403, 429}

\* what the code raises once the for loop has run out (lines 285-287)
RaiseAfterLoop(last_exc) ==
    IF last_exc # NoErr THEN Raised(last_exc) ELSE Raised(RuntimeError)

\* a loop that gives up at the first attempt, whatever its result
BackoffLoop_once(script, attempt, last_exc) ==
    IF script[attempt].k = "exc" THEN Raised(RequestException(attempt))
    ELSE IF Throttle(script[attempt]) THEN Raised(RuntimeError)
    ELSE Returned(script[attempt].status)

RECURSIVE BackoffLoop(_, _, _)
BackoffLoop(script, attempt, last_exc) ==
    IF attempt > MANUAL_ATTEMPTS THEN RaiseAfterLoop(last_exc)
    ELSE IF script[attempt].k = "exc"
    THEN BackoffLoop(script, attempt + 1, RequestException(attempt))
    ELSE IF Throttle(script[attempt])
    THEN BackoffLoop(script, attempt + 1, last_exc)
    ELSE Returned(script[attempt].status)

request_with_manual_backoff(script) == BackoffLoop(script, 1, NoErr)

\* every attempt of the script ended in an exception or a 403/429
Exhausted(script) ==
    \A a \in 1..MANUAL_ATTEMPTS : script[a].k = "exc" \/ Throttle(script[a])

\* the outcomes of a request over all scripts, with whether it ran out of attempts
\* (the downloaders format the error into a message and look at nothing else of it)
ReqOutcomes ==
    {[res |-> [k |-> request_with_manual_backoff(s).k,
               status |-> request_with_manual_backoff(s).status],
      exhausted |-> Exhausted(s)] : s \in Scripts}

\* ------------------------------------------------------------------ the server
\* the expected totals a task of the catalog can carry (total_2023 > 0)
ExpectedTotals == {3000, 5000, 5001, 10001}
\* column counts a header line of a response can have
HeaderCols == {EXPECTED_MIN_COLS - 1, EXPECTED_MIN_COLS}

RECURSIVE Rows(_, _, _)
Rows(p, n, c) == IF n = 0 THEN <<>> ELSE Rows(p, n - 1, c) \o <<Row(p, n, c)>>

\* the lines resp.iter_lines() yields for page p: nothing at all, or a header
\* line and n data lines, possibly with blank lines in between
Bodies(p, maxrows) ==
    {<<>>}
    \cup {<<Hdr(p, c)>> \o Rows(p, n, EXPECTED_MIN_COLS) : c \in HeaderCols, n \in 0..maxrows}
    \cup {<<Blank, Hdr(p, c), Blank>> \o Rows(p, n, EXPECTED_MIN_COLS) :
            c \in HeaderCols, n \in 1..maxrows}

\* a body that ends inside its n-th data line: iter_lines() yields what there is
\* of that line as its last line
CutBodies(p, maxrows) ==
    {<<Hdr(p, EXPECTED_MIN_COLS)>> \o Rows(p, n - 1, EXPECTED_MIN_COLS)
        \o <<Partial(p, n)>> : n \in 1..maxrows}

\* where the stream of a body breaks: after cut lines, or nowhere (-1)
Cuts(body) == {-1} \cup 0..Len(body)

\* ---------------------------------------------------------- the streaming loop
\* lines 331-343 and 419-429: skip blank lines, keep the first line only on the
\* first page, write every later line
StreamInit == [out |-> <<>>, seen |-> FALSE, hdr |-> 0, data |-> 0]

RECURSIVE StreamFrom(_, _, _, _)
StreamFrom(lines, k, first, st) ==
    IF k > Len(lines) THEN st
    ELSE IF lines[k].t = "B" THEN StreamFrom(lines, k + 1, first, st)
    ELSE IF ~st.seen
    THEN StreamFrom(lines, k + 1, first,
            IF first
            THEN [st EXCEPT !.seen = TRUE, !.out = @ \o <<lines[k], NL>>, !.hdr = 1]
            ELSE [st EXCEPT !.seen = TRUE])
    ELSE StreamFrom(lines, k + 1, first,
            [st EXCEPT !.out = @ \o <<lines[k], NL>>, !.data = @ + 1])

StreamLines(lines, first) == StreamFrom(lines, 1, first, StreamInit)

\* the lines delivered before the stream breaks
Delivered(body, cut) == IF cut = -1 THEN body ELSE SubSeq(body, 1, cut)

\* ------------------------------------------------------- fetch_page_to_partfile
PageRes(ok, msg, h, d) == [ok |-> ok, msg |-> msg, header_lines |-> h, data_lines |-> d]

\* (a fetch that took a request that ran out of attempts for a page without rows)
FetchOnRaise_empty(old) ==
    [res |-> PageRes(TRUE, "empty_page_no_data_rows", 0, 0), file |-> old]

\* the request raised (lines 315-316)
FetchOnRaise(old) == [res |-> PageRes(FALSE, "request_error", 0, 0), file |-> old]

\* the body broke while it was streamed into the fragment (lines 356-357)
FetchOnWriteError(written) ==
    [res |-> PageRes(FALSE, "write_error", 0, 0), file |-> written]

\* req: the outcome of request_with_manual_backoff; body, cut: the response;
\* old: what part_path holds.  Gives the result tuple and the new part_path.
\* (a fetch that leaves the fragment path alone when the page has no data line)
fetch_page_to_partfile_keep(req, body, cut, old, is_first_page) ==
    IF req.k = "raise" THEN FetchOnRaise(old)
    ELSE IF req.status # 200
    THEN [res |-> PageRes(FALSE, "HTTP", 0, 0), file |-> old]
    ELSE LET st == StreamLines(Delivered(body, cut), is_first_page)
         IN IF cut # -1 THEN FetchOnWriteError(st.out)
            ELSE IF st.data = 0
            THEN [res |-> PageRes(TRUE, "empty_page_no_data_rows", st.hdr, st.data),
                  file |-> old]
            ELSE [res |-> PageRes(TRUE, "ok", st.hdr, st.data),
                  file |-> truncate_trailing_partial_row(st.out)]

fetch_page_to_partfile(req, body, cut, old, is_first_page) ==
    IF req.k = "raise" THEN FetchOnRaise(old)
    ELSE IF req.status # 200
    THEN [res |-> PageRes(FALSE, "HTTP", 0, 0), file |-> old]
    ELSE LET st == StreamLines(Delivered(body, cut), is_first_page)
         IN IF cut # -1 THEN FetchOnWriteError(st.out)
            ELSE IF st.data = 0
            THEN [res |-> PageRes(TRUE, "empty_page_no_data_rows", st.hdr, st.data),
                  file |-> NoFile]
            ELSE [res |-> PageRes(TRUE, "ok", st.hdr, st.data),
                  file |-> truncate_trailing_partial_row(st.out)]

\* ------------------------------------------------------------------- state
VARIABLES
    srv,        \* the server: "cuts" if a body of it can end inside a data line,
                \* "steady" if it never fails, "plain" if its bodies do not
                \* vary, "whole" otherwise
    tasks,      \* main: the list of (company_id, expected_total)
    fs,         \* the storage: path -> file content or NoFile
    fs0,        \* the storage when main() started
    mainpc,     \* main: "submit", "collect", "done"
    pc,         \* per task: where its worker is
    loc,        \* per task: the locals of its downloader
    pg,         \* per task: its page fetches, page index -> state and result
    compl,      \* per task: page indexes in the order their fetches completed
    fut,        \* per task: its future
    yielded,    \* main: the futures as_completed has handed over
    results,    \* main: the list results
    summary,    \* main: ok_count and fail_count once computed
    r_script, r_attempt, r_last_exc, r_pc, r_out, r_sleeps,  \* one retry call
    tr_in, tr_block, tr_file, tr_calls,     \* one file under repair
    val_file, val_min, val_out,             \* one call of the validator
    id_workers, page_workers, pool_size     \* the configuration of main()

rvars == <<r_script, r_attempt, r_last_exc, r_pc, r_out, r_sleeps>>
mvars == <<srv, tasks, fs, fs0, mainpc, pc, loc, pg, compl, fut, yielded, results, summary>>
tvars == <<tr_in, tr_block, tr_file, tr_calls>>
vvars == <<val_file, val_min, val_out>>
cvars == <<id_workers, page_workers, pool_size>>
vars == <<mvars, rvars, tvars, vvars, cvars>>

\* --id-workers and --page-workers
IdWorkers == 2
PageWorkers == 2

\* the entities of the run
Ids == {tasks[k].id : k \in 1..Len(tasks)}
\* (a page count that rounds down)
PageCount_floor(expected_total) == expected_total \div PAGE_LIMIT
\* math.ceil(expected_total / PAGE_LIMIT)
PageCount(expected_total) == -((-expected_total) \div PAGE_LIMIT)
MaxPages == 3
PageIdx == 0..(MaxPages - 1)

final_path(id) == <<"final", id, 0>>
tmp_path(id) == <<"tmp", id, 0>>
\* (one fragment file for all the pages of an entity)
part_path_shared(id, i) == <<"part", id, 0>>
part_path(id, i) == <<"part", id, i>>
Paths == {final_path(id) : id \in Ids} \cup {tmp_path(id) : id \in Ids}
            \cup {part_path(id, i) : id \in Ids, i \in PageIdx}

T == 1..Len(tasks)
Id(t) == tasks[t].id

Pending == [st |-> "pending", ok |-> FALSE, msg |-> ""]
Return(ok, msg) == [st |-> "returned", ok |-> ok, msg |-> msg]
Raise(msg) == [st |-> "raised", ok |-> FALSE, msg |-> msg]

\* fn: the downloader main() has submitted the task to; submits: how many times.
\* offsets: the offsets download_small_sequential has requested, in order;
\* last_data: the data lines its last request gave, -1 if it gave no page.
\* ref: what the same call, given the same responses, writes in an output folder
\* that held no file when the run began (the fragment; the .part file and then
\* the artifact)
NoPage == [st |-> "none", res |-> PageRes(FALSE, "", 0, 0), exhausted |-> FALSE,
           ref |-> NoFile, offset |-> -1, is_first_page |-> FALSE]
LocInit == [offset |-> 0, total_data_rows |-> 0, wrote_header |-> FALSE,
            nreq |-> 0, hardfail |-> FALSE, exhausted |-> FALSE, pages |-> 0,
            ref |-> NoFile, offsets |-> <<>>, last_data |-> -1,
            fn |-> "none", submits |-> 0]

\* the retry call is idle while main() is modelled
RetryIdle ==
    /\ r_script = <<>> /\ r_attempt = 0 /\ r_last_exc = NoErr
    /\ r_pc = "idle" /\ r_out = Returned(0) /\ r_sleeps = 0

\* no file is under repair on its own while main() is modelled
RepairIdle == tr_in = NoFile /\ tr_block = BLOCK /\ tr_file = NoFile /\ tr_calls = 0

\* line 645: the size of the connection pool of the shared session
PoolSize(idw, pgw) == Max(idw, pgw) * 3

\* main() runs with IdWorkers and PageWorkers and has made its session
ConfigIdle ==
    /\ id_workers = IdWorkers /\ page_workers = PageWorkers
    /\ pool_size = PoolSize(IdWorkers, PageWorkers)

\* the validator is not called on its own while main() is modelled
NotValidated == [ok |-> FALSE, reason |-> "not_called"]
ValidatorIdle == val_file = NoFile /\ val_min = EXPECTED_MIN_COLS /\ val_out = NotValidated

\* storages an earlier run of the same program can have left for one entity: a
\* final artifact or none, and partially written files in the scratch paths or none
Leftovers(id) ==
    {[p \in {final_path(id), tmp_path(id)} \cup {part_path(id, i) : i \in PageIdx} |->
        IF p = final_path(id) THEN f
        ELSE scratch] : f \in {NoFile, StaleFinal}, scratch \in {NoFile, StalePartial}}

MainInit(tasklists, storages, servers) ==
    /\ srv \in servers
    /\ tasks \in tasklists
    /\ fs \in storages
    /\ fs0 = fs
    /\ mainpc = "submit"
    /\ pc = [t \in T |-> "unsubmitted"]
    /\ loc = [t \in T |-> LocInit]
    /\ pg = [t \in T |-> [i \in PageIdx |-> NoPage]]
    /\ compl = [t \in T |-> <<>>]
    /\ fut = [t \in T |-> Pending]
    /\ yielded = {}
    /\ results = <<>>
    /\ summary = [done |-> FALSE, ok_count |-> 0, fail_count |-> 0]

Clean == [p \in Paths |-> NoFile]
\* one entity, any storage an earlier run can have left
OneTask == {<<[id |-> "a", expected |-> x]>> : x \in ExpectedTotals}
OneStorages == {[p \in Paths |-> IF p \in DOMAIN l THEN l[p] ELSE NoFile] : l \in Leftovers("a")}

Init == MainInit(OneTask, OneStorages, {"cuts"}) /\ RetryIdle /\ RepairIdle /\ ValidatorIdle /\ ConfigIdle

\* ------------------------------------------------------------------- main()
\* the entity-level pool runs a queued task when a worker is free, in the order
\* of submission
Busy == {t \in T : pc[t] \notin {"unsubmitted", "queued", "done"}}
\* (a pool that starts nothing more once a task has raised)
CanStart_cancel(t) ==
    /\ pc[t] = "queued"
    /\ Cardinality(Busy) < IdWorkers
    /\ \A u \in T : u < t => pc[u] # "queued"
    /\ \A u \in T : fut[u].st # "raised"

\* (a pool that runs every task it is given at once)
CanStart_unbounded(t) == pc[t] = "queued"

CanStart(t) ==
    /\ pc[t] = "queued"
    /\ Cardinality(Busy) < IdWorkers
    /\ \A u \in T : u < t => pc[u] # "queued"

\* (a main that sends every task to the parallel downloader)
Dispatch_big(expected_total) == "big"

\* (a threshold that sends a full single page to the parallel downloader)
Dispatch_below(expected_total) == IF expected_total < PAGE_LIMIT THEN "small" ELSE "big"

\* lines 655-658: which downloader a task is submitted to
Dispatch(expected_total) == IF expected_total <= PAGE_LIMIT THEN "small" ELSE "big"

Small(t) == Dispatch(tasks[t].expected) = "small"
Big(t) == Dispatch(tasks[t].expected) = "big"

\* lines 652-660: the next task of the list is submitted
Submit(t) ==
    /\ mainpc = "submit"
    /\ pc[t] = "unsubmitted"
    /\ \A u \in T : u < t => pc[u] # "unsubmitted"
    /\ pc' = [pc EXCEPT ![t] = "queued"]
    /\ loc' = [loc EXCEPT ![t].fn = Dispatch(tasks[t].expected), ![t].submits = @ + 1]
    /\ mainpc' = IF t = Len(tasks) THEN "collect" ELSE "submit"
    /\ UNCHANGED <<srv, tasks, fs, fs0, pg, compl, fut, yielded, results, summary, rvars, tvars, vvars, cvars>>

\* ------------------------------------------------------ download_small_sequential
\* lines 369-383
SmallStart(t) ==
    /\ CanStart(t) /\ loc[t].fn = "small"
    /\ fs' = [fs EXCEPT ![tmp_path(Id(t))] = NoFile]
    /\ loc' = loc
    /\ pc' = [pc EXCEPT ![t] = "loop"]
    /\ UNCHANGED <<srv, tasks, fs0, mainpc, pg, compl, fut, yielded, results, summary, rvars, tvars, vvars, cvars>>

\* the bodies the server can send for page p
ServerBodies(p, maxrows) ==
    IF srv \in {"steady", "plain"}
    THEN {<<Hdr(p, EXPECTED_MIN_COLS)>> \o Rows(p, maxrows, EXPECTED_MIN_COLS)}
    ELSE Bodies(p, maxrows) \cup (IF srv = "cuts" THEN CutBodies(p, maxrows) ELSE {})

\* what a request can end in, and where the stream of its body can break: a
\* steady server answers every request with 200 and the whole body; a plain
\* one sends the same body whenever it sends one, or breaks the stream at once
ServerOutcomes ==
    IF srv = "steady" THEN {[res |-> [k |-> "return", status |-> 200], exhausted |-> FALSE]}
    ELSE ReqOutcomes
ServerCuts(body) ==
    IF srv = "steady" THEN {-1}
    ELSE IF srv = "plain" THEN {-1, 0}
    ELSE Cuts(body)

\* the bodies the server can send for the page at offset: it holds no rows from
\* page MaxDataPages on
SmallBodies(offset) ==
    ServerBodies(offset \div PAGE_LIMIT,
                 IF offset \div PAGE_LIMIT >= MaxDataPages THEN 0 ELSE MaxRows)

\* (a failed request that takes the artifact of an earlier run with it)
SmallPageFailed_wipes(t, msg, exh) ==
    /\ fs' = [fs EXCEPT ![tmp_path(Id(t))] = NoFile, ![final_path(Id(t))] = NoFile]
    /\ loc' = [loc EXCEPT ![t].nreq = @ + 1, ![t].hardfail = TRUE, ![t].exhausted = exh,
                          ![t].ref = NoFile,
                          ![t].offsets = Append(@, loc[t].offset), ![t].last_data = -1]
    /\ fut' = [fut EXCEPT ![t] = Return(FALSE, msg)]
    /\ pc' = [pc EXCEPT ![t] = "done"]

\* lines 396-402 and 404-410: the request raised or the status is not 200
SmallPageFailed(t, msg, exh) ==
    /\ fs' = [fs EXCEPT ![tmp_path(Id(t))] = NoFile]
    /\ loc' = [loc EXCEPT ![t].nreq = @ + 1, ![t].hardfail = TRUE, ![t].exhausted = exh,
                          ![t].ref = NoFile,
                          ![t].offsets = Append(@, loc[t].offset), ![t].last_data = -1]
    /\ fut' = [fut EXCEPT ![t] = Return(FALSE, msg)]
    /\ pc' = [pc EXCEPT ![t] = "done"]

\* lines 418-429 when resp.iter_lines() raises: nothing catches it
SmallStreamRaised(t, written, refwritten) ==
    /\ fs' = [fs EXCEPT ![tmp_path(Id(t))] = written]
    /\ loc' = [loc EXCEPT ![t].nreq = @ + 1, ![t].hardfail = TRUE, ![t].exhausted = FALSE,
                          ![t].ref = refwritten,
                          ![t].offsets = Append(@, loc[t].offset), ![t].last_data = -1]
    /\ fut' = [fut EXCEPT ![t] = Raise("stream_error")]
    /\ pc' = [pc EXCEPT ![t] = "done"]

\* (a loop that stops after any page)
LoopEnds_always(data_lines) == TRUE

\* lines 438-439: if data_lines == 0: break
LoopEnds(data_lines) == data_lines = 0

\* lines 431-444: the page was written
SmallPageWritten(t, written, refwritten, st) ==
    /\ fs' = [fs EXCEPT ![tmp_path(Id(t))] = truncate_trailing_partial_row(written)]
    /\ loc' = [loc EXCEPT
                ![t].ref = truncate_trailing_partial_row(refwritten),
                ![t].offsets = Append(@, loc[t].offset),
                ![t].last_data = st.data,
                ![t].nreq = @ + 1,
                ![t].exhausted = FALSE,
                ![t].wrote_header = @ \/ (loc[t].offset = 0 /\ st.seen),
                ![t].total_data_rows = IF LoopEnds(st.data) THEN @ ELSE @ + st.data,
                ![t].offset = IF LoopEnds(st.data) THEN @ ELSE @ + PAGE_LIMIT]
    /\ pc' = [pc EXCEPT ![t] = IF LoopEnds(st.data) THEN "fin" ELSE "loop"]
    /\ fut' = fut

\* lines 385-444: one pass of the while loop
SmallPage(t) ==
    /\ pc[t] = "loop"
    /\ \E ro \in ServerOutcomes, body \in SmallBodies(loc[t].offset) : \E cut \in ServerCuts(body) :
        LET offset == loc[t].offset
            old == fs[tmp_path(Id(t))]
            \* mode "w" at offset 0, "a" afterwards
            base == IF offset = 0 \/ ~Exists(old) THEN <<>> ELSE old
            refbase == IF offset = 0 \/ ~Exists(loc[t].ref) THEN <<>> ELSE loc[t].ref
            st == StreamLines(Delivered(body, cut), offset = 0)
        IN IF ro.res.k = "raise" THEN SmallPageFailed(t, "request_error", ro.exhausted)
           ELSE IF ro.res.status # 200 THEN SmallPageFailed(t, "HTTP", ro.exhausted)
           ELSE IF cut # -1 THEN SmallStreamRaised(t, base \o st.out, refbase \o st.out)
           ELSE SmallPageWritten(t, base \o st.out, refbase \o st.out, st)
    /\ UNCHANGED <<srv, tasks, fs0, mainpc, pg, compl, yielded, results, summary, rvars, tvars, vvars, cvars>>

\* (a run that goes on to the Validator whatever the loop has written)
SmallNoResults_never(wrote_header, total_data_rows) == FALSE

\* (a check that forgets the row count)
SmallNoResults_noheader(wrote_header, total_data_rows) == ~wrote_header

\* line 446
SmallNoResults(wrote_header, total_data_rows) == ~wrote_header \/ total_data_rows = 0

\* lines 446-465: after the loop
SmallFinish(t) ==
    /\ pc[t] = "fin"
    /\ LET tmp == fs[tmp_path(Id(t))]
           v == validate_header_min_cols(tmp, EXPECTED_MIN_COLS)
       IN IF SmallNoResults(loc[t].wrote_header, loc[t].total_data_rows)
          THEN /\ fs' = [fs EXCEPT ![tmp_path(Id(t))] = NoFile]
               /\ fut' = [fut EXCEPT ![t] = Return(FALSE, "no_results_header_only")]
               /\ loc' = [loc EXCEPT ![t].ref = NoFile]
          ELSE IF ~v.ok
          THEN /\ fs' = [fs EXCEPT ![tmp_path(Id(t))] = NoFile]
               /\ fut' = [fut EXCEPT ![t] = Return(FALSE, "validation_failed")]
               /\ loc' = [loc EXCEPT ![t].ref = NoFile]
          ELSE /\ fs' = [fs EXCEPT ![tmp_path(Id(t))] = NoFile, ![final_path(Id(t))] = tmp]
               /\ fut' = [fut EXCEPT ![t] = Return(TRUE, "downloaded_small_ok")]
               /\ loc' = loc
    /\ pc' = [pc EXCEPT ![t] = "done"]
    /\ UNCHANGED <<srv, tasks, fs0, mainpc, pg, compl, yielded, results, summary, rvars, tvars, vvars, cvars>>

\* ---------------------------------------------------- download_big_parallel_pages
\* lines 514-542: the page plan; every page fetch is submitted to the page pool
BigStart(t) ==
    /\ CanStart(t) /\ loc[t].fn = "big"
    /\ LET pages == PageCount(tasks[t].expected)
       IN IF pages <= 0
          THEN /\ fut' = [fut EXCEPT ![t] = Return(FALSE, "bad_expected_total")]
               /\ pc' = [pc EXCEPT ![t] = "done"]
               /\ UNCHANGED <<loc, pg>>
          ELSE /\ loc' = [loc EXCEPT ![t].pages = pages]
               /\ pg' = [pg EXCEPT ![t] =
                            [i \in PageIdx |->
                                IF i < pages
                                THEN [NoPage EXCEPT !.st = "queued",
                                                    !.offset = i * PAGE_LIMIT,
                                                    !.is_first_page = (i = 0)]
                                ELSE NoPage]]
               /\ pc' = [pc EXCEPT ![t] = "pages"]
               /\ fut' = fut
    /\ UNCHANGED <<srv, tasks, fs, fs0, mainpc, compl, yielded, results, summary, rvars, tvars, vvars, cvars>>

\* the page pool of one entity run takes the next queued fetch when a worker is free
PageStart(t, i) ==
    /\ pc[t] = "pages"
    /\ pg[t][i].st = "queued"
    /\ Cardinality({j \in PageIdx : pg[t][j].st = "running"}) < PageWorkers
    /\ \A j \in PageIdx : j < i => pg[t][j].st # "queued"
    /\ pg' = [pg EXCEPT ![t][i].st = "running"]
    /\ UNCHANGED <<srv, tasks, fs, fs0, mainpc, pc, loc, compl, fut, yielded, results, summary, rvars, tvars, vvars, cvars>>

\* lines 293-357 run by a page worker, and lines 544-548 taking its result
PageFetch(t, i) ==
    /\ pc[t] = "pages"
    /\ pg[t][i].st = "running"
    /\ \E ro \in ServerOutcomes, body \in ServerBodies(pg[t][i].offset \div PAGE_LIMIT, MaxRows) :
       \E cut \in ServerCuts(body) :
        LET first == pg[t][i].is_first_page
            r == fetch_page_to_partfile(ro.res, body, cut, fs[part_path(Id(t), i)], first)
            ref == fetch_page_to_partfile(ro.res, body, cut, NoFile, first)
        IN /\ fs' = [fs EXCEPT ![part_path(Id(t), i)] = r.file]
           /\ pg' = [pg EXCEPT ![t][i].st = "done", ![t][i].res = r.res,
                               ![t][i].exhausted = ro.exhausted, ![t][i].ref = ref.file]
           /\ loc' = [loc EXCEPT ![t].nreq = @ + 1,
                                 ![t].hardfail = @ \/ ~r.res.ok,
                                 ![t].total_data_rows = @ + r.res.data_lines]
    /\ compl' = [compl EXCEPT ![t] = Append(@, i)]
    /\ UNCHANGED <<srv, tasks, fs0, mainpc, pc, fut, yielded, results, summary, rvars, tvars, vvars, cvars>>

Fetched(t) == {i \in PageIdx : i < loc[t].pages}

\* (a run that merges whatever the pages reported)
HardFails_none(res, fetched) == {}

\* line 557: the pages whose result is not ok
HardFails(res, fetched) == {i \in fetched : ~res[i].res.ok}

\* (a run that goes on to the merge as soon as one page has reported)
BigCollected_early(t) ==
    /\ pc[t] = "pages"
    /\ \E i \in Fetched(t) : pg[t][i].st = "done"
    /\ IF HardFails(pg[t], {i \in Fetched(t) : pg[t][i].st = "done"}) # {}
       THEN /\ fut' = [fut EXCEPT ![t] = Return(FALSE, "page_download_failed")]
            /\ pc' = [pc EXCEPT ![t] = "done"]
       ELSE IF loc[t].total_data_rows = 0
       THEN /\ fut' = [fut EXCEPT ![t] = Return(FALSE, "no_results_all_pages_empty")]
            /\ pc' = [pc EXCEPT ![t] = "done"]
       ELSE /\ pc' = [pc EXCEPT ![t] = "merge"]
            /\ fut' = fut
    /\ UNCHANGED <<srv, tasks, fs, fs0, mainpc, loc, pg, compl, yielded, results, summary, rvars, tvars, vvars, cvars>>

\* lines 557-564, once the page pool has shut down
BigCollected(t) ==
    /\ pc[t] = "pages"
    /\ \A i \in Fetched(t) : pg[t][i].st = "done"
    /\ IF HardFails(pg[t], Fetched(t)) # {}
       THEN /\ fut' = [fut EXCEPT ![t] = Return(FALSE, "page_download_failed")]
            /\ pc' = [pc EXCEPT ![t] = "done"]
       ELSE IF loc[t].total_data_rows = 0
       THEN /\ fut' = [fut EXCEPT ![t] = Return(FALSE, "no_results_all_pages_empty")]
            /\ pc' = [pc EXCEPT ![t] = "done"]
       ELSE /\ pc' = [pc EXCEPT ![t] = "merge"]
            /\ fut' = fut
    /\ UNCHANGED <<srv, tasks, fs, fs0, mainpc, loc, pg, compl, yielded, results, summary, rvars, tvars, vvars, cvars>>

\* ---------------------------------------------------------------- merge_parts
\* the order in which merge_parts goes through the fragments: part_paths (line 522)
RECURSIVE Upto(_)
Upto(n) == IF n = 0 THEN <<>> ELSE Upto(n - 1) \o <<n - 1>>
\* (a merge of every fragment file the folder of the entity holds)
MergeOrder_folder(pages, completed) == Upto(MaxPages)
\* (a merge in the order of completion)
MergeOrder_completion(pages, completed) == completed

MergeOrder(pages, completed) == Upto(pages)

\* lines 477-480: the bytes of every fragment that exists and is not empty
RECURSIVE MergeBytes(_, _, _, _)
MergeBytes(fsys, id, order, k) ==
    IF k > Len(order) THEN <<>>
    ELSE LET p == fsys[part_path(id, order[k])]
         IN (IF Exists(p) /\ Len(p) > 0 THEN p ELSE <<>>)
                \o MergeBytes(fsys, id, order, k + 1)

\* lines 473-480
MergeWrite(t) ==
    /\ pc[t] = "merge"
    /\ fs' = [fs EXCEPT ![final_path(Id(t))] =
                MergeBytes(fs, Id(t), MergeOrder(loc[t].pages, compl[t]), 1)]
    /\ pc' = [pc EXCEPT ![t] = "merged"]
    /\ UNCHANGED <<srv, tasks, fs0, mainpc, loc, pg, compl, fut, yielded, results, summary, rvars, tvars, vvars, cvars>>

\* lines 482-500: the result of merge_parts and what it leaves at final_path
MergeCheck(final) ==
    IF ~Exists(final) \/ Len(final) = 0
    THEN [ok |-> FALSE, msg |-> "merged_empty", file |-> final]
    ELSE IF count_lines_quick(final, 3) < 2
    THEN [ok |-> FALSE, msg |-> "no_results_header_only_after_merge", file |-> NoFile]
    ELSE IF ~validate_header_min_cols(final, EXPECTED_MIN_COLS).ok
    THEN [ok |-> FALSE, msg |-> "validation_failed", file |-> NoFile]
    ELSE [ok |-> TRUE, msg |-> "merged_ok", file |-> final]

\* lines 482-500 and 566-582: the checks of merge_parts, then the cleanup
BigFinish(t) ==
    /\ pc[t] = "merged"
    /\ LET m == MergeCheck(fs[final_path(Id(t))])
       IN IF ~m.ok
          THEN /\ fs' = [fs EXCEPT ![final_path(Id(t))] = m.file]
               /\ fut' = [fut EXCEPT ![t] = Return(FALSE, m.msg)]
          ELSE /\ fs' = [p \in Paths |->
                            IF \E i \in Fetched(t) : p = part_path(Id(t), i)
                            THEN NoFile ELSE fs[p]]
               /\ fut' = [fut EXCEPT ![t] = Return(TRUE, "downloaded_big_ok")]
    /\ pc' = [pc EXCEPT ![t] = "done"]
    /\ UNCHANGED <<srv, tasks, fs0, mainpc, loc, pg, compl, yielded, results, summary, rvars, tvars, vvars, cvars>>

\* ------------------------------------------- merge_parts called on any fragments
\* what a fragment path can hold when merge_parts is called on its own
MergeFragments ==
    {NoFile, <<>>,
     <<Hdr(0, EXPECTED_MIN_COLS), NL, Row(0, 1, EXPECTED_MIN_COLS), NL>>,
     <<Hdr(0, EXPECTED_MIN_COLS - 1), NL, Row(0, 1, EXPECTED_MIN_COLS), NL>>,
     <<Hdr(0, EXPECTED_MIN_COLS), NL>>,
     <<Row(1, 1, EXPECTED_MIN_COLS), NL>>}

\* download_big_parallel_pages is at its call of merge_parts (line 566) for an
\* entity of MaxPages pages; main() and the page fetches are not modelled
MergeInit ==
    /\ srv = "whole"
    /\ tasks = <<[id |-> "a", expected |-> (MaxPages - 1) * PAGE_LIMIT + 1]>>
    /\ fs \in {f \in [Paths -> MergeFragments \cup {StaleFinal}] :
                /\ f[final_path("a")] \in {NoFile, StaleFinal}
                /\ f[tmp_path("a")] = NoFile
                /\ \A i \in PageIdx : f[part_path("a", i)] \in MergeFragments}
    /\ fs0 = fs
    /\ mainpc = "collect"
    /\ pc = [t \in T |-> "merge"]
    /\ loc = [t \in T |-> [LocInit EXCEPT !.fn = "big", !.submits = 1, !.pages = MaxPages]]
    /\ pg = [t \in T |-> [i \in PageIdx |-> NoPage]]
    /\ compl = [t \in T |-> <<>>]
    /\ fut = [t \in T |-> Pending]
    /\ yielded = {}
    /\ results = <<>>
    /\ summary = [done |-> FALSE, ok_count |-> 0, fail_count |-> 0]
    /\ RetryIdle /\ RepairIdle /\ ValidatorIdle /\ ConfigIdle

MergeNext == \E t \in T : MergeWrite(t) \/ BigFinish(t)

MergeSpec == MergeInit /\ [][MergeNext]_vars

\* --------------------------------------------------------- main(): the results
\* the Outcome appended for a finished future (lines 664-673)
OutcomeOf(t, f) ==
    IF f.st = "raised"
    THEN [t |-> t, company_id |-> Id(t), expected_total |-> tasks[t].expected,
          ok |-> FALSE, msg |-> "executor_error"]
    ELSE [t |-> t, company_id |-> Id(t), expected_total |-> tasks[t].expected,
          ok |-> f.ok, msg |-> f.msg]

\* (a result loop that records nothing for a task that raised)
AppendOutcome_drop(res, t, f) == IF f.st = "raised" THEN res ELSE Append(res, OutcomeOf(t, f))

AppendOutcome(res, t, f) == Append(res, OutcomeOf(t, f))

\* lines 662-673: as_completed hands over a finished future
Collect(t) ==
    /\ mainpc = "collect"
    /\ fut[t].st # "pending"
    /\ t \notin yielded
    /\ yielded' = yielded \cup {t}
    /\ results' = AppendOutcome(results, t, fut[t])
    /\ UNCHANGED <<srv, tasks, fs, fs0, mainpc, pc, loc, pg, compl, fut, summary, rvars, tvars, vvars, cvars>>

OkCount(res) == Cardinality({k \in 1..Len(res) : res[k].ok})

\* lines 675-678, after as_completed has handed over every future
Summary ==
    /\ mainpc = "collect"
    /\ \A t \in T : t \in yielded
    /\ summary' = [done |-> TRUE, ok_count |-> OkCount(results),
                   fail_count |-> Len(results) - OkCount(results)]
    /\ mainpc' = "done"
    /\ UNCHANGED <<srv, tasks, fs, fs0, pc, loc, pg, compl, fut, yielded, results, rvars, tvars, vvars, cvars>>

Next ==
    \/ \E t \in T : Submit(t)
    \/ \E t \in T : SmallStart(t)
    \/ \E t \in T : SmallPage(t)
    \/ \E t \in T : SmallFinish(t)
    \/ \E t \in T : BigStart(t)
    \/ \E t \in T, i \in PageIdx : PageStart(t, i)
    \/ \E t \in T, i \in PageIdx : PageFetch(t, i)
    \/ \E t \in T : BigCollected(t)
    \/ \E t \in T : MergeWrite(t)
    \/ \E t \in T : BigFinish(t)
    \/ \E t \in T : Collect(t)
    \/ Summary

Spec == Init /\ [][Next]_vars

\* two entities of the catalog (sorted by company_id), on a clean output folder,
\* and a server whose bodies end at the end of a line
TwoTasks ==
    {<<[id |-> "a", expected |-> x], [id |-> "b", expected |-> y]>> :
        x \in {5000}, y \in {5001}}
OrchInit == MainInit(TwoTasks, {Clean}, {"whole"}) /\ RetryIdle /\ RepairIdle /\ ValidatorIdle /\ ConfigIdle
OrchSpec == OrchInit /\ [][Next]_vars

\* more entities than entity workers, two of them with more pages than page
\* workers, and a server that never fails
ManyTasks ==
    {<<[id |-> "a", expected |-> (MaxPages - 1) * PAGE_LIMIT + 1],
       [id |-> "b", expected |-> (MaxPages - 1) * PAGE_LIMIT + 1],
       [id |-> "c", expected |-> PAGE_LIMIT]>>}
PoolInit ==
    /\ MainInit(ManyTasks, {Clean}, {"steady"})
    /\ RetryIdle /\ RepairIdle /\ ValidatorIdle /\ ConfigIdle
PoolSpec == PoolInit /\ [][Next]_vars

\* ------------------------------------------ main(): from the totals file to tasks
\* the order of company ids under sort_values
IdRank(id) == CASE id = "a" -> 1 [] id = "b" -> 2 [] OTHER -> 3

\* line 625: the rows whose total is greater than zero, in the order of the file
RECURSIVE SkipZeros(_)
SkipZeros(rows) ==
    IF rows = <<>> THEN <<>>
    ELSE (IF rows[1].expected > 0 THEN <<rows[1]>> ELSE <<>>) \o SkipZeros(Tail(rows))

\* line 626: sort_values("company_id"), by insertion
RECURSIVE InsertById(_, _)
InsertById(row, sorted) ==
    IF sorted = <<>> THEN <<row>>
    ELSE IF IdRank(row.id) < IdRank(sorted[1].id) THEN <<row>> \o sorted
    ELSE <<sorted[1]>> \o InsertById(row, Tail(sorted))
RECURSIVE SortById(_)
SortById(rows) ==
    IF rows = <<>> THEN <<>> ELSE InsertById(rows[1], SortById(Tail(rows)))

\* lines 623-628: the tasks main() makes of the rows of the totals file
TasksOf(rows) == SortById(SkipZeros(rows))

\* totals a row of the file can carry (a missing total is read as 0, line 624)
CatalogTotals ==
    {-1, 0, 1, PAGE_LIMIT, PAGE_LIMIT + 1, (MaxPages - 1) * PAGE_LIMIT + 1}
\* totals files of two companies, not in the order of their ids, the second
\* with one record at most
Catalogs ==
    {<<[id |-> "b", expected |-> x], [id |-> "a", expected |-> y]>> :
        x \in CatalogTotals, y \in {-1, 0, 1}}

\* main() run on any of these totals files
CatalogInit ==
    /\ MainInit({TasksOf(rows) : rows \in Catalogs}, {Clean}, {"plain"})
    /\ RetryIdle /\ RepairIdle /\ ValidatorIdle /\ ConfigIdle
CatalogSpec == CatalogInit /\ [][Next]_vars

\* ------------------------------- request_with_manual_backoff, attempt by attempt
\* one call of request_with_manual_backoff on a session that ends attempt a in
\* r_script[a]
RetryInit ==
    /\ r_script \in Scripts
    /\ r_attempt = 1
    /\ r_last_exc = NoErr
    /\ r_pc = "loop"
    /\ r_out = Returned(0)
    /\ r_sleeps = 0
    /\ MainInit({<<>>}, {Clean}, {"whole"})
    /\ RepairIdle /\ ValidatorIdle /\ ConfigIdle

\* lines 267-272: session.get raised
RetryException ==
    /\ r_pc = "loop" /\ r_attempt <= MANUAL_ATTEMPTS
    /\ r_script[r_attempt].k = "exc"
    /\ r_last_exc' = RequestException(r_attempt)
    /\ r_sleeps' = r_sleeps + 1
    /\ r_attempt' = r_attempt + 1
    /\ UNCHANGED <<r_script, r_pc, r_out, mvars, tvars, vvars, cvars>>

\* lines 274-281: a 403 or a 429
RetryThrottled ==
    /\ r_pc = "loop" /\ r_attempt <= MANUAL_ATTEMPTS
    /\ Throttle(r_script[r_attempt])
    /\ r_sleeps' = r_sleeps + 1
    /\ r_attempt' = r_attempt + 1
    /\ UNCHANGED <<r_script, r_last_exc, r_pc, r_out, mvars, tvars, vvars, cvars>>

\* line 283: any other response is returned
RetryReturn ==
    /\ r_pc = "loop" /\ r_attempt <= MANUAL_ATTEMPTS
    /\ r_script[r_attempt].k = "resp" /\ ~Throttle(r_script[r_attempt])
    /\ r_out' = Returned(r_script[r_attempt].status)
    /\ r_pc' = "done"
    /\ UNCHANGED <<r_script, r_attempt, r_last_exc, r_sleeps, mvars, tvars, vvars, cvars>>

\* lines 285-287: the loop ran out
RetryRaise ==
    /\ r_pc = "loop" /\ r_attempt > MANUAL_ATTEMPTS
    /\ r_out' = RaiseAfterLoop(r_last_exc)
    /\ r_pc' = "done"
    /\ UNCHANGED <<r_script, r_attempt, r_last_exc, r_sleeps, mvars, tvars, vvars, cvars>>

RetryNext == RetryException \/ RetryThrottled \/ RetryReturn \/ RetryRaise

RetrySpec == RetryInit /\ [][RetryNext]_vars

\* the loop is sequential code and its sleeps are finite: it takes its next step
RetryLiveSpec == RetryInit /\ [][RetryNext]_vars /\ WF_vars(RetryNext)

\* the attempt-by-attempt loop ends in what request_with_manual_backoff gives
RetryAgrees == r_pc = "done" => r_out = request_with_manual_backoff(r_script)

\* ------------------------ download_big_parallel_pages called with any expected_total
\* expected totals that give no page, one page, and up to MaxPages pages
PlanTotals ==
    {-PAGE_LIMIT, -1, 0, 1, PAGE_LIMIT, PAGE_LIMIT + 1, 2 * PAGE_LIMIT,
     (MaxPages - 1) * PAGE_LIMIT + 2000}

\* the call is in the queue of the entity pool; main() is not modelled
PlanInit ==
    /\ srv = "whole"
    /\ tasks \in {<<[id |-> "a", expected |-> x]>> : x \in PlanTotals}
    /\ fs = Clean
    /\ fs0 = fs
    /\ mainpc = "done"
    /\ pc = [t \in T |-> "queued"]
    /\ loc = [t \in T |-> [LocInit EXCEPT !.fn = "big", !.submits = 1]]
    /\ pg = [t \in T |-> [i \in PageIdx |-> NoPage]]
    /\ compl = [t \in T |-> <<>>]
    /\ fut = [t \in T |-> Pending]
    /\ yielded = {}
    /\ results = <<>>
    /\ summary = [done |-> FALSE, ok_count |-> 0, fail_count |-> 0]
    /\ RetryIdle /\ RepairIdle /\ ValidatorIdle /\ ConfigIdle

PlanNext ==
    \/ \E t \in T : BigStart(t)
    \/ \E t \in T, i \in PageIdx : PageStart(t, i)
    \/ \E t \in T, i \in PageIdx : PageFetch(t, i)
    \/ \E t \in T : BigCollected(t)
    \/ \E t \in T : MergeWrite(t)
    \/ \E t \in T : BigFinish(t)

PlanSpec == PlanInit /\ [][PlanNext]_vars

\* ------------------------------------- truncate_trailing_partial_row on any file
\* the longest file, and the largest block of the backward scan, that are tried
MaxFileLen == 5
MaxBlock == 3
\* a byte that is not a newline
Byte == Tok("D", 0, 1, 1)
RECURSIVE FilesOfLen(_)
FilesOfLen(n) ==
    IF n = 0 THEN {<<>>}
    ELSE {Append(f, b) : f \in FilesOfLen(n - 1), b \in {Byte, NL}}
Files == {NoFile} \cup UNION {FilesOfLen(n) : n \in 0..MaxFileLen}

\* a file of any content, a missing one too, and a scan in blocks of tr_block
RepairInit ==
    /\ tr_in \in Files
    /\ tr_block \in 1..MaxBlock
    /\ tr_file = tr_in
    /\ tr_calls = 0
    /\ MainInit({<<>>}, {Clean}, {"whole"})
    /\ RetryIdle /\ ValidatorIdle /\ ConfigIdle

\* lines 171-198, called on the file once and once more
Repair ==
    /\ tr_calls < 2
    /\ tr_file' = TruncateWithBlock(tr_file, tr_block)
    /\ tr_calls' = tr_calls + 1
    /\ UNCHANGED <<tr_in, tr_block, mvars, rvars, vvars, cvars>>

RepairSpec == RepairInit /\ [][Repair]_vars

\* ----------------------------------------- validate_header_min_cols on any file
\* the longest file that is tried
MaxValLen == 4
\* what a file is made of: newlines, blanks, and pieces of a line of 79, 80 or 1
\* columns (a line of several pieces has the columns of all of them)
ValToks ==
    {NL, Blank, Hdr(0, EXPECTED_MIN_COLS - 1), Hdr(0, EXPECTED_MIN_COLS), Partial(0, 1)}
RECURSIVE ValFilesOfLen(_)
ValFilesOfLen(n) ==
    IF n = 0 THEN {<<>>}
    ELSE {Append(f, b) : f \in ValFilesOfLen(n - 1), b \in ValToks}
ValFiles == UNION {ValFilesOfLen(n) : n \in 0..MaxValLen}

ValidateInit ==
    /\ val_file \in ValFiles
    /\ val_min \in {EXPECTED_MIN_COLS, EXPECTED_MIN_COLS + 1}
    /\ val_out = NotValidated
    /\ MainInit({<<>>}, {Clean}, {"whole"})
    /\ RetryIdle /\ RepairIdle /\ ConfigIdle

\* lines 201-225
Validate ==
    /\ val_out = NotValidated
    /\ val_out' = validate_header_min_cols(val_file, val_min)
    /\ UNCHANGED <<val_file, val_min, mvars, rvars, tvars, cvars>>

ValidateSpec == ValidateInit /\ [][Validate]_vars

\* ------------------------------------------------- main(): the shared session
\* the largest --id-workers and --page-workers that are tried
MaxWorkers == 10

\* main() with any --id-workers and --page-workers, before make_session
ConfigInit ==
    /\ id_workers \in 1..MaxWorkers
    /\ page_workers \in 1..MaxWorkers
    /\ pool_size = 0
    /\ MainInit({<<>>}, {Clean}, {"whole"})
    /\ RetryIdle /\ RepairIdle /\ ValidatorIdle

\* lines 645-646
MakeSession ==
    /\ pool_size = 0
    /\ pool_size' = PoolSize(id_workers, page_workers)
    /\ UNCHANGED <<id_workers, page_workers, mvars, rvars, tvars, vvars>>

ConfigSpec == ConfigInit /\ [][MakeSession]_vars

\* the orchestrator under the pool's scheduling: a step that can be taken is
\* taken; requests fail or give the page
LiveInit ==
    /\ MainInit(TwoTasks, {Clean}, {"plain"})
    /\ RetryIdle /\ RepairIdle /\ ValidatorIdle /\ ConfigIdle
LiveSpec == LiveInit /\ [][Next]_vars /\ WF_vars(Next)

\* ================================================================= properties
Final(t) == fs[final_path(Id(t))]
Tmp(t) == fs[tmp_path(Id(t))]
Part(t, i) == fs[part_path(Id(t), i)]
Done(t) == fut[t].st # "pending"
Succeeded(t) == fut[t].st = "returned" /\ fut[t].ok
\* a data line, whole or cut
IsData(tok) == tok.t \in {"D", "P"}
DataPagesOf(f) == {f[k].p : k \in {j \in 1..Len(f) : IsData(f[j])}}
DataCount(f) == Cardinality({k \in 1..Len(f) : IsData(f[k])})

\* C1 (as claimed): once a run in which a page failed hard has returned, no file
\* exists at the final path, whatever the storage held before the run.
C1_NoFinalAfterHardFailure ==
    \A t \in T : Done(t) /\ loc[t].hardfail => ~Exists(Final(t))

\* C1 (amended): once a run in which a page failed hard has returned, the final
\* path is as it was before the run: absent if it was absent, and a file of an
\* earlier run is still there unchanged.
C1_FinalUntouchedAfterHardFailure ==
    \A t \in T : Done(t) /\ loc[t].hardfail => Final(t) = fs0[final_path(Id(t))]

C1_Witness ==
    \E t \in T : /\ Big(t) /\ Done(t) /\ loc[t].hardfail
                 /\ fs0[final_path(Id(t))] = StaleFinal
                 /\ \E i \in Fetched(t) : pg[t][i].res.ok /\ pg[t][i].res.data_lines > 0

\* C2: when a downloader has returned success, the final file begins with the
\* header line of the offset-0 page, followed by at least one data line.
C2_ArtifactStartsWithHeader ==
    \A t \in T : Succeeded(t) =>
        LET f == Final(t)
        IN /\ Exists(f) /\ Len(f) >= 4
           /\ f[1].t = "H" /\ f[1].p = 0 /\ f[2] = NL
           /\ f[3].t = "D" /\ f[4] = NL

\* C3: the file merge_parts has written holds every data line the pages wrote,
\* all lines of page i before any line of page j when i < j, whatever the order
\* in which the fetches completed.
PageOrdered(f) ==
    \A a, b \in 1..Len(f) :
        a < b /\ IsData(f[a]) /\ IsData(f[b]) => f[a].p <= f[b].p

C3_MergedInPageOrder ==
    \A t \in T : Big(t) /\ (pc[t] = "merged" \/ Succeeded(t)) =>
        /\ Exists(Final(t))
        /\ PageOrdered(Final(t))
        /\ DataCount(Final(t)) = loc[t].total_data_rows

C3_Witness ==
    \E t \in T : /\ Big(t) /\ Succeeded(t)
                 /\ compl[t] # Upto(loc[t].pages)
                 /\ Cardinality(DataPagesOf(Final(t))) >= 2

\* every page the run asked for came back with a header row and no data row
HeaderOnlyRun(t) ==
    IF Small(t)
    THEN /\ fut[t].st = "returned" /\ ~loc[t].hardfail
         /\ loc[t].nreq = 1 /\ loc[t].wrote_header /\ loc[t].total_data_rows = 0
    ELSE /\ pc[t] = "done"
         /\ \A i \in Fetched(t) : pg[t][i].res.ok /\ pg[t][i].res.data_lines = 0
         /\ pg[t][0].res.header_lines = 1

HeaderOnlyDetail(t) ==
    /\ fut[t].st = "returned" /\ ~fut[t].ok
    /\ fut[t].msg = IF Small(t) THEN "no_results_header_only"
                    ELSE "no_results_all_pages_empty"

\* C4 (as claimed): after a run whose pages were all header-only the outcome is
\* no_results_header_only (sequential) or no_results_all_pages_empty (parallel)
\* and neither the final file nor the .part file exists.
C4_HeaderOnlyNoArtifact ==
    \A t \in T : HeaderOnlyRun(t) =>
        HeaderOnlyDetail(t) /\ ~Exists(Final(t)) /\ ~Exists(Tmp(t))

\* C4 (amended): after such a run the outcome is as claimed and the run has left
\* no file of its own: the final path is as it was before the run, the
\* sequential path leaves no .part file, the parallel path leaves no fragment
\* and leaves the .part path as it was.
C4_HeaderOnlyRejected ==
    \A t \in T : HeaderOnlyRun(t) =>
        /\ HeaderOnlyDetail(t)
        /\ Final(t) = fs0[final_path(Id(t))]
        /\ Small(t) => ~Exists(Tmp(t))
        /\ Big(t) => /\ Tmp(t) = fs0[tmp_path(Id(t))]
                     /\ \A i \in Fetched(t) : ~Exists(Part(t, i))

C4_Witness ==
    /\ \E t \in T : HeaderOnlyRun(t) /\ fs0[final_path(Id(t))] = StaleFinal
    /\ mainpc = "done"

\* C5: when main() has its summary, results holds exactly one Outcome for each
\* task, a failed one with executor_error for a task that raised, and the two
\* counts add up to the number of tasks; results never names a task twice.
OutcomesOf(t) == {k \in 1..Len(results) : results[k].t = t}

C5_OneOutcomePerTask ==
    /\ \A t \in T : Cardinality(OutcomesOf(t)) <= 1
    /\ summary.done =>
        /\ Len(results) = Len(tasks)
        /\ summary.ok_count + summary.fail_count = Len(tasks)
        /\ summary.ok_count = Cardinality({t \in T : Succeeded(t)})
        /\ \A t \in T :
            /\ Cardinality(OutcomesOf(t)) = 1
            /\ \A k \in OutcomesOf(t) :
                /\ results[k].ok = Succeeded(t)
                /\ results[k].company_id = Id(t)
                /\ fut[t].st = "raised" => results[k].msg = "executor_error"

C5_Witness ==
    /\ summary.done
    /\ \E t, u \in T : fut[t].st = "raised" /\ Succeeded(u)

\* C6: under the pool's scheduling every task gets its Outcome, whatever its
\* siblings did, and main() has no summary before all of them have theirs.
AllOutcomes == \A t \in T : Done(t) /\ OutcomesOf(t) # {}

C6_NoCrossTaskCancellation ==
    /\ <>AllOutcomes
    /\ [](summary.done => AllOutcomes)

C6_Witness ==
    /\ summary.done
    /\ Len(results) = 2
    /\ ~results[1].ok /\ results[2].ok

\* C7: a request that ran out of attempts makes its page a hard failure: ok is
\* False in the result of fetch_page_to_partfile, and download_small_sequential
\* returns a failed outcome; it is never an ok page without data lines.
C7_ExhaustionIsHardFailure ==
    \A t \in T :
        /\ loc[t].exhausted =>
            fut[t].st = "returned" /\ ~fut[t].ok /\ fut[t].msg = "request_error"
        /\ \A i \in PageIdx : pg[t][i].st = "done" /\ pg[t][i].exhausted =>
            ~pg[t][i].res.ok /\ pg[t][i].res.msg = "request_error"

C7_Witness ==
    \E t \in T, i \in PageIdx :
        /\ pg[t][i].st = "done" /\ pg[t][i].exhausted
        /\ \E j \in PageIdx : pg[t][j].st = "done" /\ pg[t][j].res.ok

\* C8: the error raised when the attempts have run out carries the result of the
\* last attempt: its exception if it raised, its status if it was a 403 or 429.
C8_ErrorCarriesLastAttempt ==
    r_pc = "done" /\ r_out.k = "raise" =>
        LET last == r_script[MANUAL_ATTEMPTS]
        IN /\ last.k = "exc" => r_out.err = RequestException(MANUAL_ATTEMPTS)
           /\ Throttle(last) => r_out.status = last.status

\* C9: in the sequential path a hard failure of a page ends the run at once and
\* the .part file does not exist when the run has ended.
C9_SequentialFailureRemovesPart ==
    \A t \in T : Small(t) /\ loc[t].hardfail => pc[t] = "done" /\ ~Exists(Tmp(t))

\* C10: when fetch_page_to_partfile has returned a failed page, no partially
\* written fragment remains at its part_path: no file that holds some lines.
C10_FailedPageLeavesNoFragment ==
    \A t \in T, i \in PageIdx :
        pg[t][i].st = "done" /\ ~pg[t][i].res.ok =>
            ~(Exists(Part(t, i)) /\ Len(Part(t, i)) > 0)

\* lines of the run under way (the page tag of a line of an earlier run is -1)
RunContent(f) == Exists(f) /\ \E k \in 1..Len(f) : f[k].t \in {"H", "D"} /\ f[k].p >= 0

\* C11: at every moment of a run, sequential or parallel, a file at the final
\* path that holds lines of that run is one the Validator accepts: content that
\* has not passed the Validator is never at the final path.
C11_FinalOnlyValidated ==
    \A t \in T : RunContent(Final(t)) =>
        validate_header_min_cols(Final(t), EXPECTED_MIN_COLS).ok

\* C12: a page is reported failed for a transport failure (a timeout of the
\* request, or of the read while the body is streamed) only when every attempt
\* the Retry Policy allows has been made.
TransportFailure(msg) == msg \in {"request_error", "write_error", "stream_error"}

C12_TimeoutIsRetried ==
    \A t \in T :
        /\ Small(t) /\ Done(t) /\ TransportFailure(fut[t].msg) => loc[t].exhausted
        /\ \A i \in PageIdx :
            pg[t][i].st = "done" /\ ~pg[t][i].res.ok /\ TransportFailure(pg[t][i].res.msg)
                => pg[t][i].exhausted

\* a file holds a line that was cut short
HasPartial(f) == Exists(f) /\ \E k \in 1..Len(f) : f[k].t = "P"
WholeRows(f) == Cardinality({k \in 1..Len(f) : f[k].t = "D"})

\* C13: once a page fetch and its call of truncate_trailing_partial_row are over,
\* the file it wrote (the fragment, or the growing .part file) holds nothing of a
\* data line that the body ended in, and such a line is not among the data
\* lines counted.
C13_NoPartialRecordSurvives ==
    \A t \in T :
        /\ ~HasPartial(Tmp(t))
        /\ \A i \in PageIdx : ~HasPartial(Part(t, i))
        /\ pc[t] \in {"loop", "fin"} /\ Exists(Tmp(t)) =>
                loc[t].total_data_rows = WholeRows(Tmp(t))
        /\ \A i \in PageIdx :
            pc[t] = "pages" /\ pg[t][i].st = "done" /\ pg[t][i].res.ok /\ Exists(Part(t, i))
                => pg[t][i].res.data_lines = WholeRows(Part(t, i))

\* the longest prefix of f that is empty or ends with a newline
RECURSIVE TerminatedPrefix(_, _)
TerminatedPrefix(f, n) ==
    IF n = 0 THEN <<>>
    ELSE IF f[n] = NL THEN SubSeq(f, 1, n)
    ELSE TerminatedPrefix(f, n - 1)

\* C14: for every file content and every block size of the backward scan,
\* truncate_trailing_partial_row leaves a missing file, an empty file and a file
\* that ends with a newline as they are, and cuts any other file to its prefix
\* that ends at its last newline, to nothing if it has no newline; the result
\* is empty or ends with a newline, and a second call changes nothing.
C14_RepairResult ==
    tr_calls >= 1 =>
        /\ ~Exists(tr_in) => tr_file = tr_in
        /\ Exists(tr_in) =>
            /\ tr_file = TerminatedPrefix(tr_in, Len(tr_in))
            /\ Len(tr_file) = 0 \/ tr_file[Len(tr_file)] = NL
            /\ Len(tr_in) = 0 \/ tr_in[Len(tr_in)] = NL => tr_file = tr_in

\* a file whose last newline lies more than one block before its end, repaired twice
C14_Witness ==
    /\ tr_calls = 2
    /\ Exists(tr_in) /\ Len(tr_in) = MaxFileLen
    /\ tr_in[2] = NL /\ \A k \in 3..Len(tr_in) : tr_in[k] # NL
    /\ tr_block < Len(tr_in) - 2
    /\ tr_file = SubSeq(tr_in, 1, 2)

\* the artifact of the same run, given the same responses, on an output folder
\* that held no file: the .part file renamed, or the fragments in page order
RECURSIVE RefMerge(_, _)
RefMerge(t, n) ==
    IF n = 0 THEN <<>>
    ELSE RefMerge(t, n - 1)
            \o (IF Exists(pg[t][n - 1].ref) THEN pg[t][n - 1].ref ELSE <<>>)
RefFinal(t) == IF Small(t) THEN loc[t].ref ELSE RefMerge(t, loc[t].pages)

\* C15: a run without failures ends with the same artifact content whatever files
\* an earlier run left in the folder (artifact, .part file, fragments) and in
\* whatever order its pages completed: the content it has on an empty folder,
\* so a second run against the same server data gives what the first gave.
C15_RerunSameArtifact ==
    \A t \in T : Succeeded(t) => Final(t) = RefFinal(t)

C15_Witness ==
    \E t \in T :
        /\ Big(t) /\ Succeeded(t)
        /\ fs0[final_path(Id(t))] = StaleFinal
        /\ \A i \in PageIdx : fs0[part_path(Id(t), i)] = StalePartial
        /\ compl[t] # Upto(loc[t].pages)
        /\ loc[t].pages < MaxPages

\* C16: download_small_sequential asks for the offsets 0, P, 2P, ... one after
\* the other, leaves its loop only after a page without data lines and then asks
\* for nothing more, and returns success only when its last request gave no data
\* line: a run that succeeds has made at least two requests.
C16_EndsOnEmptyPage ==
    \A t \in T : Small(t) =>
        /\ Len(loc[t].offsets) = loc[t].nreq
        /\ \A k \in 1..Len(loc[t].offsets) : loc[t].offsets[k] = (k - 1) * PAGE_LIMIT
        /\ pc[t] = "loop" => loc[t].last_data # 0 /\ loc[t].offset = loc[t].nreq * PAGE_LIMIT
        /\ pc[t] = "fin" => loc[t].last_data = 0
        /\ loc[t].last_data = 0 => pc[t] \in {"fin", "done"}
        /\ Succeeded(t) => loc[t].last_data = 0 /\ loc[t].nreq >= 2

\* an entity of fewer than P rows whose run succeeded
C16_Witness ==
    \E t \in T :
        /\ Small(t) /\ tasks[t].expected < PAGE_LIMIT /\ Succeeded(t)
        /\ loc[t].offsets = <<0, PAGE_LIMIT>>
        /\ DataCount(Final(t)) = MaxRows

\* C17: main() submits every task once, to download_small_sequential when its
\* expected_total is at most PAGE_LIMIT (a count equal to PAGE_LIMIT too) and to
\* download_big_parallel_pages when it is larger, and the task runs in that
\* downloader only.
C17_DispatchThreshold ==
    \A t \in T :
        /\ loc[t].submits = (IF pc[t] = "unsubmitted" THEN 0 ELSE 1)
        /\ pc[t] # "unsubmitted" =>
            /\ tasks[t].expected <= PAGE_LIMIT <=> loc[t].fn = "small"
            /\ tasks[t].expected > PAGE_LIMIT <=> loc[t].fn = "big"
        /\ pc[t] \in {"loop", "fin"} => tasks[t].expected <= PAGE_LIMIT
        /\ pc[t] \in {"pages", "merge", "merged"} => tasks[t].expected > PAGE_LIMIT
        /\ loc[t].offsets # <<>> => tasks[t].expected <= PAGE_LIMIT
        /\ loc[t].pages > 0 => tasks[t].expected > PAGE_LIMIT

\* a task of exactly PAGE_LIMIT rows in the sequential loop
C17_Witness ==
    \E t \in T : tasks[t].expected = PAGE_LIMIT /\ pc[t] = "loop" /\ loc[t].offsets = <<0>>

\* the least n with n * PAGE_LIMIT >= e
CeilOfRatio(e) ==
    CHOOSE n \in -2..(MaxPages + 1) : n * PAGE_LIMIT >= e /\ (n - 1) * PAGE_LIMIT < e

\* C18: download_big_parallel_pages plans ceil(expected_total / PAGE_LIMIT) pages;
\* when that is not positive it returns bad_expected_total and requests nothing;
\* otherwise it submits one fetch for each page index below the page count and
\* for no other, the one of index i at offset i * PAGE_LIMIT, with is_first_page
\* for index 0 only, and each of them runs once.
C18_PagePlan ==
    \A t \in T : pc[t] # "queued" =>
        LET n == CeilOfRatio(tasks[t].expected)
        IN IF n <= 0
           THEN /\ fut[t] = Return(FALSE, "bad_expected_total")
                /\ loc[t].nreq = 0 /\ compl[t] = <<>>
                /\ \A i \in PageIdx : pg[t][i].st = "none"
           ELSE /\ loc[t].pages = n
                /\ \A i \in PageIdx :
                    /\ pg[t][i].st # "none" <=> i < n
                    /\ i < n => /\ pg[t][i].offset = i * PAGE_LIMIT
                                /\ pg[t][i].is_first_page <=> i = 0
                /\ Len(compl[t]) = loc[t].nreq
                /\ \A i \in PageIdx :
                    Cardinality({k \in 1..Len(compl[t]) : compl[t][k] = i})
                        = (IF pg[t][i].st = "done" THEN 1 ELSE 0)
                /\ pc[t] # "pages" => \A i \in PageIdx : i < n => pg[t][i].st = "done"

\* a plan of MaxPages pages for a total that is not a multiple of PAGE_LIMIT, all
\* of them fetched
C18_Witness ==
    \E t \in T :
        /\ tasks[t].expected = (MaxPages - 1) * PAGE_LIMIT + 2000
        /\ pc[t] = "done" /\ loc[t].nreq = MaxPages
        /\ pg[t][MaxPages - 1].offset = (MaxPages - 1) * PAGE_LIMIT

\* the positions of a file that hold something other than a newline or a blank
Inked(f) == {k \in 1..Len(f) : f[k] \notin {NL, Blank}}
\* the columns of the line around position k
ColsAround(f, k) ==
    LET lo == CHOOSE a \in 0..k :
                /\ a = 0 \/ f[a] = NL
                /\ \A b \in (a + 1)..k : f[b] # NL
        hi == CHOOSE a \in k..(Len(f) + 1) :
                /\ a = Len(f) + 1 \/ f[a] = NL
                /\ \A b \in k..(a - 1) : f[b] # NL
    IN Cols(SubSeq(f, lo + 1, hi - 1))

\* C19: validate_header_min_cols fails with empty_or_binary_file on a file without
\* a non-blank line; on any other file, with n the columns of its first non-blank
\* line, it fails with too_few_columns when n is below the expected number (one
\* below included) and succeeds when n is equal to it or above.
C19_ValidatorBoundary ==
    val_out # NotValidated =>
        IF Inked(val_file) = {}
        THEN val_out = [ok |-> FALSE, reason |-> "empty_or_binary_file"]
        ELSE LET k == CHOOSE a \in Inked(val_file) : \A b \in Inked(val_file) : a <= b
                 n == ColsAround(val_file, k)
             IN IF n < val_min
                THEN val_out = [ok |-> FALSE, reason |-> "too_few_columns"]
                ELSE val_out = [ok |-> TRUE, reason |-> ""]

\* a header of one column less than expected, after a blank line
C19_Witness ==
    /\ val_out = [ok |-> FALSE, reason |-> "too_few_columns"]
    /\ val_min = EXPECTED_MIN_COLS
    /\ val_file = <<Blank, NL, Hdr(0, EXPECTED_MIN_COLS - 1), NL>>

\* the paths a worker writes, deletes or renames where it now is: the thread of
\* a downloader (the .part file and the artifact in the sequential loop; the
\* artifact and the fragments in merge_parts and the cleanup; nothing while it
\* waits for its page pool), and a page fetch that is running (its fragment)
EntityPaths(t) ==
    IF pc[t] \in {"loop", "fin"} THEN {tmp_path(Id(t)), final_path(Id(t))}
    ELSE IF pc[t] \in {"merge", "merged"}
    THEN {final_path(Id(t))} \cup {part_path(Id(t), i) : i \in Fetched(t)}
    ELSE {}
PagePaths(t, i) ==
    IF pc[t] = "pages" /\ pg[t][i].st = "running" THEN {part_path(Id(t), i)} ELSE {}
Workers == {<<"entity", t, 0>> : t \in T} \cup {<<"page", t, i>> : t \in T, i \in PageIdx}
Owned(w) == IF w[1] = "entity" THEN EntityPaths(w[2]) ELSE PagePaths(w[2], w[3])
ChangedPaths == {p \in Paths : fs'[p] # fs[p]}

\* C20: during a run of main() no path is within reach of two workers at once,
\* and every step that changes a file changes only paths of one worker that is
\* at work before or after the step.
C20_ExclusivePaths ==
    /\ [](\A w1, w2 \in Workers : w1 # w2 => Owned(w1) \cap Owned(w2) = {})
    /\ [][\E w \in Workers : ChangedPaths \subseteq (Owned(w) \cup Owned(w)')]_vars

\* the sequential downloader of one entity and two page fetches of another at
\* work at the same time
C20_Witness ==
    \E t, u \in T :
        /\ pc[t] = "loop" /\ Exists(Tmp(t))
        /\ pc[u] = "pages"
        /\ Cardinality({i \in PageIdx : pg[u][i].st = "running"}) >= 2

\* C21: whatever --id-workers and --page-workers are, the pool of the shared
\* session is at least id_workers * page_workers connections large, the number
\* of requests that can be in flight at once.
C21_PoolCoversWorkers ==
    pool_size # 0 => pool_size >= id_workers * page_workers


\* the requests in flight: one for each sequential run in its loop, one for each
\* page fetch that is running
InFlight ==
    Cardinality({t \in T : pc[t] = "loop"})
        + Cardinality({<<t, i>> \in T \X PageIdx : pg[t][i].st = "running"})

\* C22: at most id_workers downloaders run at a time, each parallel downloader
\* has at most page_workers of its own page fetches in flight, and at most
\* id_workers * page_workers requests are in flight in all.
C22_TwoBoundedPools ==
    /\ Cardinality(Busy) <= id_workers
    /\ \A t \in T : Cardinality({i \in PageIdx : pg[t][i].st = "running"}) <= page_workers
    /\ InFlight <= id_workers * page_workers

\* both pools full: two entities with page_workers fetches in flight each and a
\* page waiting each, and an entity waiting for a worker
C22_Witness ==
    /\ Cardinality(Busy) = id_workers
    /\ \E t \in T : pc[t] = "queued"
    /\ Cardinality({t \in T :
            /\ Cardinality({i \in PageIdx : pg[t][i].st = "running"}) = page_workers
            /\ \E i \in PageIdx : pg[t][i].st = "queued"}) >= 2

\* a response with a 4xx status that is neither 403 nor 429
ClientError(r) == r.k = "resp" /\ r.status \in (400..499) \ {403, 429}

\* C23: a response with a 4xx status other than 403 and 429 is not retried:
\* the attempt that received it returns it, with no sleep and no further
\* attempt, and the page fetch given that response reports the failed page
\* "HTTP <status> at offset <offset>" whatever the fragment and the page are.
C23_ClientErrorNotRetried ==
    [][r_pc = "loop" /\ r_attempt <= MANUAL_ATTEMPTS /\ ClientError(r_script[r_attempt]) =>
        /\ r_pc' = "done"
        /\ r_out' = Returned(r_script[r_attempt].status)
        /\ r_sleeps' = r_sleeps /\ r_attempt' = r_attempt
        /\ \A old \in {NoFile, <<NL>>}, first \in BOOLEAN :
            fetch_page_to_partfile([k |-> r_out'.k, status |-> r_out'.status],
                                   <<>>, -1, old, first)
                = [res |-> PageRes(FALSE, "HTTP", 0, 0), file |-> old]]_vars

\* the first attempt got a 404 and the call is over
C23_Witness ==
    /\ r_pc = "done" /\ r_script[1] = Resp(404)
    /\ r_out = Returned(404) /\ r_attempt = 1 /\ r_sleeps = 0

\* the attempts of a script that got a response with a status other than 403, 429
Answers(script) ==
    {a \in 1..MANUAL_ATTEMPTS :
        script[a].k = "resp" /\ script[a].status \notin {403, 429}}
\* the attempts made so far: the one under way counts once it has returned
AttemptsMade ==
    IF r_pc = "done" /\ r_out.k = "return" THEN r_attempt ELSE r_attempt - 1

\* C24: for every sequence of attempt results, request_with_manual_backoff makes
\* at most MANUAL_ATTEMPTS attempts and ends; it makes a further attempt only
\* after an exception or a 403/429, returns the response of the first attempt
\* whose status is neither 403 nor 429, and raises if no attempt had one.
C24_BoundedRetry ==
    /\ [](AttemptsMade <= MANUAL_ATTEMPTS)
    /\ <>(r_pc = "done")
    /\ [][r_attempt' # r_attempt =>
            /\ r_attempt' = r_attempt + 1 /\ r_pc' = "loop"
            /\ \/ r_script[r_attempt].k = "exc"
               \/ r_script[r_attempt] \in {Resp(403), Resp(429)}]_vars
    /\ [](r_pc = "done" =>
            /\ r_out = request_with_manual_backoff(r_script)
            /\ IF Answers(r_script) = {}
               THEN r_out.k = "raise" /\ AttemptsMade = MANUAL_ATTEMPTS
               ELSE LET first == CHOOSE a \in Answers(r_script) :
                                    \A b \in Answers(r_script) : a <= b
                    IN r_out = Returned(r_script[first].status)
                       /\ AttemptsMade = first)

\* an exception, then a 429, then a 200 that is returned by the third attempt
C24_Witness ==
    /\ r_pc = "done" /\ r_out = Returned(200) /\ r_attempt = 3 /\ r_sleeps = 2
    /\ r_script[1] = Exc /\ r_script[2] = Resp(429)

\* merge_parts has been called in the run of t
MergeCalled(t) == pc[t] \in {"merge", "merged"} \/ (pc[t] = "done" /\ fut[t].msg \in
    {"merged_empty", "no_results_header_only_after_merge", "validation_failed",
     "downloaded_big_ok"})
\* the page indexes of compl[t], each as often as it completed
Completions(t, i) == Cardinality({k \in 1..Len(compl[t]) : compl[t][k] = i})

\* C25: in the parallel path merge_parts is called only once every page fetch of
\* the entity has completed, every page has reported ok and some page has data
\* lines; when a page has reported a hard failure there is no merge and the
\* final path is as the run found it; every page index is fetched once.
C25_MergeGating ==
    /\ [](\A t \in T : Big(t) /\ MergeCalled(t) =>
            /\ \A i \in Fetched(t) : pg[t][i].st = "done" /\ pg[t][i].res.ok
            /\ \E i \in Fetched(t) : pg[t][i].res.data_lines > 0)
    /\ [](\A t \in T : Big(t) /\ (\E i \in PageIdx : pg[t][i].st = "done" /\ ~pg[t][i].res.ok) =>
            ~MergeCalled(t) /\ Final(t) = fs0[final_path(Id(t))])
    /\ [](\A t \in T : Big(t) =>
            /\ \A i \in PageIdx : Completions(t, i) = (IF pg[t][i].st = "done" THEN 1 ELSE 0)
            /\ loc[t].nreq = Len(compl[t])
            /\ Done(t) /\ loc[t].pages > 0 =>
                    \A i \in PageIdx : (i < PageCount(tasks[t].expected)) = (pg[t][i].st = "done"))
    /\ [][\A t \in T : Big(t) /\ pc[t] = "pages" /\ pc'[t] # "pages" =>
            \A i \in Fetched(t) : pg[t][i].st = "done"]_vars

\* three pages that completed out of submission order, all ok, and the merge
\* has written
C25_Witness ==
    \E t \in T :
        /\ Big(t) /\ pc[t] = "merged" /\ loc[t].pages = 3
        /\ compl[t] = <<1, 0, 2>>
        /\ Final(t) # fs0[final_path(Id(t))]

\* the outcomes of a file that was assembled and then rejected
StructuralFailures ==
    {"validation_failed", "merged_empty", "no_results_header_only_after_merge"}

RECURSIVE NonBlank(_)
NonBlank(lines) ==
    IF lines = <<>> THEN <<>>
    ELSE (IF lines[1].t = "B" THEN <<>> ELSE <<lines[1]>>) \o NonBlank(Tail(lines))
\* every line of ls followed by its newline
RECURSIVE Terminated(_)
Terminated(ls) ==
    IF ls = <<>> THEN <<>> ELSE <<ls[1], NL>> \o Terminated(Tail(ls))
\* the header lines a file holds
HeaderLines(f) == Cardinality({k \in 1..Len(f) : f[k].t = "H"})

\* what the claim says a fetch of a whole body gives
PageByClaim(body, first) ==
    LET nb == NonBlank(body)
        data == IF nb = <<>> THEN 0 ELSE Len(nb) - 1
    IN IF data = 0
       THEN [res |-> PageRes(TRUE, "empty_page_no_data_rows",
                             IF first /\ nb # <<>> THEN 1 ELSE 0, 0),
             file |-> NoFile]
       ELSE [res |-> PageRes(TRUE, "ok", IF first THEN 1 ELSE 0, data),
             file |-> Terminated(IF first THEN nb ELSE Tail(nb))]

\* the fetch of every whole body does what the claim says of a page
C27_PageAsClaimed ==
    \A p \in PageIdx, first \in BOOLEAN, old \in {NoFile, StalePartial} :
        \A body \in Bodies(p, MaxRows) :
            fetch_page_to_partfile([k |-> "return", status |-> 200], body, -1, old, first)
                = PageByClaim(body, first)

\* C27: a page fetch skips blank lines, writes the first other line only on the
\* first page, writes every later line as a data line, and deletes the fragment
\* and reports empty_page_no_data_rows when there is no data line; so the
\* artifact of a successful run holds the header line exactly once.
C27_HeaderExactlyOnce ==
    /\ C27_PageAsClaimed
    /\ \A t \in T : Succeeded(t) => Exists(Final(t)) /\ HeaderLines(Final(t)) = 1

\* every line of f was written from a response of the run under way
OnlyThisRun(f) == \A k \in 1..Len(f) : f[k] = NL \/ f[k].p >= 0

\* C28: when a run has returned success, the final path holds a file of at least
\* two lines that the Validator accepts and whose lines all come from pages
\* fetched in this run; and when download_small_sequential has returned, with
\* success or with a failure, the .part file does not exist.
C28_SuccessHasArtifact ==
    \A t \in T :
        /\ Succeeded(t) =>
            /\ Exists(Final(t))
            /\ count_lines_quick(Final(t), 3) >= 2
            /\ validate_header_min_cols(Final(t), EXPECTED_MIN_COLS).ok
            /\ OnlyThisRun(Final(t))
        /\ loc[t].fn = "small" /\ fut[t].st = "returned" => ~Exists(Tmp(t))

\* a sequential run that found an artifact and a .part file of an earlier run
\* has returned success
C28_Witness ==
    \E t \in T :
        /\ loc[t].fn = "small" /\ Succeeded(t)
        /\ fs0[final_path(Id(t))] = StaleFinal
        /\ fs0[tmp_path(Id(t))] = StalePartial
        /\ Final(t) # StaleFinal

\* C29: a sequential run that fails at any point, and a parallel run that fails
\* before it calls merge_parts, leave the final path as they found it; the
\* only steps that change the final path are those of merge_parts and the
\* rename at the end of a sequential run that succeeds.
C29_FailedRunFrame ==
    /\ [](\A t \in T :
            Done(t) /\ ~Succeeded(t) /\ (loc[t].fn = "small" \/ ~MergeCalled(t)) =>
                Final(t) = fs0[final_path(Id(t))])
    /\ [][\A t \in T : Final(t)' # Final(t) =>
            \/ loc[t].fn = "big" /\ pc[t] \in {"merge", "merged"}
            \/ loc[t].fn = "small" /\ pc[t] = "fin" /\ Succeeded(t)']_vars

\* a parallel run whose pages all came back without rows has ended, and the
\* artifact of an earlier run is still at the final path
C29_Witness ==
    \E t \in T :
        /\ loc[t].fn = "big" /\ Done(t)
        /\ fut[t].msg = "no_results_all_pages_empty"
        /\ fs0[final_path(Id(t))] = StaleFinal
        /\ Final(t) = StaleFinal

\* the page indexes whose fragments merge_parts goes through
MergeReads(t) ==
    LET order == MergeOrder(loc[t].pages, compl[t])
    IN {order[k] : k \in 1..Len(order)}

\* C30: whatever fragments an earlier run left, every fragment merge_parts reads
\* was written in full by a fetch of this run that returned ok with at least
\* one data line; a fragment of an earlier run at the path of a page has been
\* replaced or deleted by then, or the run has failed before the merge.
C30_NoStaleFragmentMerged ==
    \A t \in T :
        /\ loc[t].fn = "big" /\ pc[t] = "merge" =>
            \A i \in MergeReads(t) :
                /\ i \in Fetched(t) /\ pg[t][i].st = "done" /\ pg[t][i].res.ok
                /\ Exists(Part(t, i)) /\ Len(Part(t, i)) > 0 =>
                    /\ pg[t][i].res.msg = "ok" /\ pg[t][i].res.data_lines >= 1
                    /\ Part(t, i) = pg[t][i].ref
                    /\ OnlyThisRun(Part(t, i))
                /\ ~(Exists(Part(t, i)) /\ Len(Part(t, i)) > 0) =>
                    pg[t][i].res.data_lines = 0
        /\ loc[t].fn = "big" /\ pc[t] = "merged" => OnlyThisRun(Final(t))

\* every fragment path held a fragment of an earlier run; at the merge one of
\* them has been deleted for a page without rows and another replaced
C30_Witness ==
    \E t \in T :
        /\ loc[t].fn = "big" /\ pc[t] = "merge"
        /\ \A i \in PageIdx : fs0[part_path(Id(t), i)] = StalePartial
        /\ \E i, j \in Fetched(t) : ~Exists(Part(t, i)) /\ Exists(Part(t, j))

\* C31: every task main() dispatches has a total above zero, and the parallel
\* downloader is given totals above PAGE_LIMIT only: it plans at least two
\* pages, never returns bad_expected_total, and fetches a page other than the
\* first in every run.
C31_AtLeastTwoPages ==
    \A t \in T :
        /\ tasks[t].expected > 0
        /\ fut[t].msg # "bad_expected_total"
        /\ loc[t].fn = "big" =>
            /\ tasks[t].expected > PAGE_LIMIT
            /\ PageCount(tasks[t].expected) >= 2
            /\ pc[t] # "queued" =>
                /\ loc[t].pages >= 2
                /\ pg[t][1].st # "none" /\ ~pg[t][1].is_first_page
                /\ pg[t][1].offset = PAGE_LIMIT
            /\ Done(t) => pg[t][1].st = "done"

\* of two rows the one without rows was dropped; the other, one row above
\* PAGE_LIMIT, has run in the parallel downloader with two pages
C31_Witness ==
    /\ Len(tasks) = 1
    /\ tasks[1].expected = PAGE_LIMIT + 1
    /\ loc[1].fn = "big" /\ Done(1)
    /\ loc[1].pages = 2 /\ pg[1][1].st = "done"

====
